---- MODULE Spec2Model ----
(***************************************************************************)
(* A model of geodepy/statistics.py: the coverage-factor lookup k_val95,   *)
(* the frame conversions vcv_cart2local / vcv_local2cart over the rotation *)
(* matrix, error_ellipse and circ_hz_pu.                                   *)
(*                                                                         *)
(* The functions are pure.  Each has an action that evaluates its whole    *)
(* body on arguments the caller chose and stores how the call ended: the   *)
(* returned value, or the exception raised.  Each component has its own    *)
(* specification (SpecK, SpecF, SpecE, SpecC); the variables of the other  *)
(* components stay idle in it.                                             *)
(***************************************************************************)
EXTENDS Integers, Sequences, FiniteSets, TLC

VARIABLES
    kArg,     \* k_val95: the argument of the current call
    kRes,     \* k_val95: how the current call ended (or "pending")
    kPrev,    \* k_val95: the previous finished call, <<arg, res>>, or <<>>
    fVcv,     \* frame converter: the matrix handed to the next call
    fLat,     \* frame converter: latitude
    fLon,     \* frame converter: longitude
    fOrig,    \* frame converter: the matrix the caller started from
    fHist,    \* frame converter: the calls made so far
    fRes,     \* frame converter: how the last call ended
    eVcv,     \* error_ellipse: the argument
    eRes,     \* error_ellipse: how the call ended
    cArg,     \* circ_hz_pu: the arguments <<a, b>>
    cRes      \* circ_hz_pu: how the call ended

vars == <<kArg, kRes, kPrev, fVcv, fLat, fLon, fOrig, fHist, fRes,
          eVcv, eRes, cArg, cRes>>

kVars == <<kArg, kRes, kPrev>>
fVars == <<fVcv, fLat, fLon, fOrig, fHist, fRes>>
eVars == <<eVcv, eRes>>
cVars == <<cArg, cRes>>

Pending == [status |-> "pending"]
Idle == [status |-> "idle"]

KIdle == kArg = Idle /\ kRes = Idle /\ kPrev = <<>>
FIdle == fVcv = Idle /\ fLat = Idle /\ fLon = Idle /\ fOrig = Idle
         /\ fHist = <<>> /\ fRes = Idle
EIdle == eVcv = Idle /\ eRes = Idle
CIdle == cArg = Idle /\ cRes = Idle

(***************************************************************************)
(* Python values of the kinds a caller passes as a number.  A value is     *)
(* [type, val, half]: the number val, plus one half when half is set       *)
(* (only a float can carry a fraction).  2.0 is type "float", val 2.       *)
(***************************************************************************)
PyInt(n) == [type |-> "int", val |-> n, half |-> FALSE]
PyBool(b) == [type |-> "bool", val |-> IF b THEN 1 ELSE 0, half |-> FALSE]
PyFloat(n, h) == [type |-> "float", val |-> n, half |-> h]

\* isinstance(x, int): bool is a subclass of int, float is not.
isinstance_int(x) == x.type \in {"int", "bool"}

\* A Python list subscript seq[i]: 0-based, a negative index counts from
\* the end, anything else raises IndexError.
Subscript(seq, i) ==
    IF 0 <= i /\ i < Len(seq) THEN [status |-> "ok", k |-> seq[i + 1]]
    ELSE IF -Len(seq) <= i /\ i < 0
         THEN [status |-> "ok", k |-> seq[Len(seq) + i + 1]]
         ELSE [status |-> "IndexError"]

(***************************************************************************)
(* ttable_p95, in units of 1e-5 (the table is printed to 5 decimals).      *)
(***************************************************************************)
ttable_p95 ==
  << 1270620, 430265, 318245, 277645, 257058, 244691,
     236462, 230600, 226216, 222814, 220099, 217881,
     216037, 214479, 213145, 211991, 210982, 210092,
     209302, 208596, 207961, 207387, 206866, 206390,
     205954, 205553, 205183, 204841, 204523, 204227,
     203951, 203693, 203452, 203224, 203011, 202809,
     202619, 202439, 202269, 202108, 201954, 201808,
     201669, 201537, 201410, 201290, 201174, 201063,
     200958, 200856, 200758, 200665, 200575, 200488,
     200404, 200324, 200247, 200172, 200100, 200030,
     199962, 199897, 199834, 199773, 199714, 199656,
     199601, 199547, 199495, 199444, 199394, 199346,
     199300, 199254, 199210, 199167, 199125, 199085,
     199045, 199006, 198969, 198932, 198896, 198861,
     198827, 198793, 198761, 198729, 198698, 198667,
     198638, 198609, 198580, 198552, 198525, 198498,
     198472, 198447, 198422, 198397, 198373, 198350,
     198326, 198304, 198282, 198260, 198238, 198217,
     198197, 198177, 198157, 198137, 198118, 198099,
     198081, 198063, 198045, 198027, 198010, 197993 >>

\* The value returned above the table, 1.96, in units of 1e-5.
KAsymptotic == 196000

\* k_val95 without the lower clamp: dof < 1 falls through to the subscript.
k_val95_NoClamp(dof) ==
    IF ~isinstance_int(dof) THEN [status |-> "TypeError"]
    ELSE IF dof.val > 120 THEN [status |-> "ok", k |-> KAsymptotic]
         ELSE Subscript(ttable_p95, dof.val - 1)

\* k_val95 without the type check: any number is compared and used.
k_val95_NoTypeCheck(dof) ==
    IF dof.val < 1 THEN Subscript(ttable_p95, 0)
    ELSE IF dof.val > 120 THEN [status |-> "ok", k |-> KAsymptotic]
         ELSE Subscript(ttable_p95, dof.val - 1)

\* k_val95 with the two clamps exchanged.
k_val95_SwappedClamps(dof) ==
    IF ~isinstance_int(dof) THEN [status |-> "TypeError"]
    ELSE IF dof.val < 1 THEN [status |-> "ok", k |-> KAsymptotic]
         ELSE IF dof.val > 120 THEN Subscript(ttable_p95, 0)
              ELSE Subscript(ttable_p95, dof.val - 1)

k_val95(dof) ==
    IF ~isinstance_int(dof) THEN [status |-> "TypeError"]
    ELSE IF dof.val < 1 THEN Subscript(ttable_p95, 0)
         ELSE IF dof.val > 120 THEN [status |-> "ok", k |-> KAsymptotic]
              ELSE Subscript(ttable_p95, dof.val - 1)

\* How far the integer arguments reach below 1 and above the table.
DofSpan == 3

IntDofs == {PyInt(n) : n \in (0 - DofSpan)..(Len(ttable_p95) + DofSpan)}
BoolDofs == {PyBool(b) : b \in BOOLEAN}
FloatDofs == {PyFloat(n, h) : n \in {0 - DofSpan, 0, 1, 2, 60, 120, 121,
                                     Len(ttable_p95) + DofSpan},
                              h \in BOOLEAN}
Dofs == IntDofs \cup BoolDofs \cup FloatDofs

InitK ==
    /\ kArg \in Dofs
    /\ kRes = Pending
    /\ kPrev = <<>>
    /\ FIdle /\ EIdle /\ CIdle

\* The call k_val95(kArg) runs to its end.
K_val95 ==
    /\ kRes = Pending
    /\ kRes' = k_val95(kArg)
    /\ UNCHANGED <<kArg, kPrev, fVars, eVars, cVars>>

\* The caller makes another call, with any argument.
KInvoke ==
    /\ kRes # Pending
    /\ \E d \in Dofs :
          /\ kArg' = d
          /\ kRes' = Pending
          /\ kPrev' = <<kArg, kRes>>
    /\ UNCHANGED <<fVars, eVars, cVars>>

NextK == K_val95 \/ KInvoke

SpecK == InitK /\ [][NextK]_vars

(***************************************************************************)
(* k_val95: the claims.                                                    *)
(***************************************************************************)
KDone == kRes # Pending /\ kRes # Idle

\* C1: for an int dof, k_val95 returns table[dof-1] when 1 <= dof <= 120
\* (k_val95(1) = 12.7062, k_val95(120) = 1.97993), table[0] = 12.7062 when
\* dof < 1 and 1.96 when dof > 120; no int raises or leaves the table.
C1_Lookup ==
    (KDone /\ kArg.type = "int") =>
        /\ kRes.status = "ok"
        /\ (1 <= kArg.val /\ kArg.val <= 120) => kRes.k = ttable_p95[kArg.val]
        /\ kArg.val = 1 => kRes.k = 1270620
        /\ kArg.val = 120 => kRes.k = 197993
        /\ kArg.val < 1 => kRes.k = 1270620
        /\ kArg.val > 120 => kRes.k = 196000

\* An int below 1 was clamped, right after an int above 120 was.
C1_Witness ==
    /\ KDone /\ kArg.type = "int" /\ kArg.val < 0 /\ kRes.status = "ok"
    /\ kPrev # <<>> /\ kPrev[1].type = "int" /\ kPrev[1].val > 120
    /\ kPrev[2].status = "ok"

\* C2: a dof that is not an int (a float, also one that is numerically an
\* integer such as 2.0, of any magnitude) raises TypeError and no coverage
\* factor is returned.
C2_FloatRejected ==
    (KDone /\ kArg.type = "float") =>
        /\ kRes.status = "TypeError"
        /\ DOMAIN kRes = {"status"}

\* 2.0 was rejected, after a float above the table was.
C2_Witness ==
    /\ KDone /\ kArg = PyFloat(2, FALSE) /\ kRes.status = "TypeError"
    /\ kPrev # <<>> /\ kPrev[1].type = "float" /\ kPrev[1].val > 120
    /\ kPrev[2].status = "TypeError"

\* C10: k_val95 is non-increasing over the ints (d1 <= d2 gives
\* k_val95(d1) >= k_val95(d2)), strictly decreasing over 1..120, its last
\* table entry is above 1.96, and every returned factor is in
\* [1.96, 12.7062].
C10_Monotone ==
    /\ (KDone /\ kRes.status = "ok") =>
           (196000 <= kRes.k /\ kRes.k <= 1270620)
    /\ (KDone /\ kRes.status = "ok" /\ kPrev # <<>> /\ kPrev[2].status = "ok"
        /\ kPrev[1].val <= kArg.val) =>
           /\ kPrev[2].k >= kRes.k
           /\ (1 <= kPrev[1].val /\ kPrev[1].val < kArg.val
               /\ kArg.val <= 121) => kPrev[2].k > kRes.k

\* k_val95(120) was followed by k_val95(121).
C10_Witness ==
    /\ KDone /\ kArg = PyInt(121) /\ kRes.status = "ok"
    /\ kPrev # <<>> /\ kPrev[1] = PyInt(120) /\ kPrev[2].status = "ok"

(***************************************************************************)
(* The frame converter.                                                    *)
(*                                                                         *)
(* Real numbers are kept exact.  An angle is given by its sine and cosine  *)
(* as multiples of 1/TrigDen (0, 90 and 180 degrees, and the angles of the *)
(* 3-4-5 triangle), so every entry of the rotation matrix is an integer    *)
(* over TrigDen^2.  A matrix is [rows, cols, m, scale]: m holds integers   *)
(* and the entries are m[i][j] / scale.  m is 1-based: Python's vcv[0, 0]  *)
(* is m[1][1].                                                             *)
(***************************************************************************)
TrigDen == 5

Angle(s, c) == [s5 |-> s, c5 |-> c]

\* TrigDen * sin(radians(x)) and TrigDen * cos(radians(x)).
sin(x) == x.s5
cos(x) == x.c5

Dot3(u, v) == u[1] * v[1] + u[2] * v[2] + u[3] * v[3]
Col(A, j) == <<A[1][j], A[2][j], A[3][j]>>

\* numpy's A @ B and A.transpose() for 3x3 arrays.
MatMul(A, B) == [i \in 1..3 |-> [j \in 1..3 |-> Dot3(A[i], Col(B, j))]]
transpose(A) == [i \in 1..3 |-> [j \in 1..3 |-> A[j][i]]]

\* The entries of rot_matrix times TrigDen^2.
rotation_matrix(lat, lon) ==
    << << 0 - TrigDen * sin(lon), 0 - sin(lat) * cos(lon), cos(lat) * cos(lon) >>,
       << TrigDen * cos(lon), 0 - sin(lat) * sin(lon), cos(lat) * sin(lon) >>,
       << 0, TrigDen * cos(lat), TrigDen * sin(lat) >> >>

\* The scale a product with rot_matrix on both sides multiplies in.
RotScale == (TrigDen * TrigDen) * (TrigDen * TrigDen)

\* sys.exit(msg): the module imports only math and numpy, so the name sys
\* is unbound and evaluating it raises NameError before exit is reached.
sys_exit(msg) == [status |-> "NameError", name |-> "sys"]

\* The 3x1 branch with an index slip: vcv[1, 0] again in the last place.
ExpandColumn_Slip(vcv) ==
    [rows |-> 3, cols |-> 3, scale |-> vcv.scale,
     m |-> << << vcv.m[1][1], 0, 0 >>,
              << 0, vcv.m[2][1], 0 >>,
              << 0, 0, vcv.m[2][1] >> >>]

\* The 3x1 branch: the column's three variances on a diagonal.
ExpandColumn(vcv) ==
    [rows |-> 3, cols |-> 3, scale |-> vcv.scale,
     m |-> << << vcv.m[1][1], 0, 0 >>,
              << 0, vcv.m[2][1], 0 >>,
              << 0, 0, vcv.m[3][1] >> >>]

\* The shape test both conversions open with: the matrix to rotate, or the
\* failure.
CheckShape(vcv) ==
    IF vcv.rows = 3
    THEN IF vcv.cols = 1 THEN [status |-> "ok", value |-> ExpandColumn(vcv)]
         ELSE IF vcv.cols = 3 THEN [status |-> "ok", value |-> vcv]
              ELSE sys_exit("Matrix must be either 3x1 or 3x3")
    ELSE sys_exit("Matrix must be either 3x1 or 3x3")

\* numpy's matmul of 3x3 operands: any other operand raises ValueError.
Rotated(left, vcv, right) ==
    IF vcv.rows = 3 /\ vcv.cols = 3
    THEN [status |-> "ok",
          value |-> [rows |-> 3, cols |-> 3, scale |-> vcv.scale * RotScale,
                     m |-> MatMul(MatMul(left, vcv.m), right)]]
    ELSE [status |-> "ValueError"]

vcv_cart2local(vcv_cart, lat, lon) ==
    LET checked == CheckShape(vcv_cart)
        rot_matrix == rotation_matrix(lat, lon)
    IN  IF checked.status # "ok" THEN checked
        ELSE Rotated(transpose(rot_matrix), checked.value, rot_matrix)

\* vcv_local2cart with the product of vcv_cart2local.
vcv_local2cart_AsCart(vcv_local, lat, lon) == vcv_cart2local(vcv_local, lat, lon)

vcv_local2cart(vcv_local, lat, lon) ==
    LET checked == CheckShape(vcv_local)
        rot_matrix == rotation_matrix(lat, lon)
    IN  IF checked.status # "ok" THEN checked
        ELSE Rotated(rot_matrix, checked.value, transpose(rot_matrix))

\* The number of conversions a caller chains.
MaxCalls == 2

Diags == {1, 2}
Covs == {-1, 0, 1}
Vars == {0, 1, 3}

Sym(d1, d2, d3, c12, c13, c23) ==
    [rows |-> 3, cols |-> 3, scale |-> 1,
     m |-> << <<d1, c12, c13>>, <<c12, d2, c23>>, <<c13, c23, d3>> >>]

Column(v1, v2, v3) ==
    [rows |-> 3, cols |-> 1, scale |-> 1, m |-> << <<v1>>, <<v2>>, <<v3>> >>]

Filled(r, c) ==
    [rows |-> r, cols |-> c, scale |-> 1,
     m |-> [i \in 1..r |-> [j \in 1..c |-> IF i = j THEN 1 ELSE 0]]]

SymVcvs == {Sym(d1, d2, d3, c12, c13, c23) :
               d1 \in Diags, d2 \in Diags, d3 \in Diags,
               c12 \in Covs, c13 \in Covs, c23 \in Covs}
ColumnVcvs == {Column(v1, v2, v3) : v1 \in Vars, v2 \in Vars, v3 \in Vars}
BadShapeVcvs == {Filled(2, 2), Filled(4, 3), Filled(3, 2), Filled(3, 4),
                 Filled(1, 3), Filled(1, 1)}
Vcvs == SymVcvs \cup ColumnVcvs \cup BadShapeVcvs

Lats == {Angle(0, 5), Angle(3, 4), Angle(-4, 3), Angle(5, 0)}
Lons == {Angle(0, 5), Angle(4, 3), Angle(-3, -4), Angle(5, 0), Angle(0, -5)}

InitF ==
    /\ fVcv \in Vcvs
    /\ fOrig = fVcv
    /\ fLat \in Lats
    /\ fLon \in Lons
    /\ fHist = <<>>
    /\ fRes = Pending
    /\ KIdle /\ EIdle /\ CIdle

FCanCall == Len(fHist) < MaxCalls /\ (fHist = <<>> \/ fRes.status = "ok")

\* The call vcv_cart2local(fVcv, fLat, fLon); its result is what the caller
\* passes on.
Vcv_cart2local ==
    /\ FCanCall
    /\ fRes' = vcv_cart2local(fVcv, fLat, fLon)
    /\ fVcv' = IF fRes'.status = "ok" THEN fRes'.value ELSE fVcv
    /\ fHist' = Append(fHist, "cart2local")
    /\ UNCHANGED <<fLat, fLon, fOrig, kVars, eVars, cVars>>

\* The call vcv_local2cart(fVcv, fLat, fLon).
Vcv_local2cart ==
    /\ FCanCall
    /\ fRes' = vcv_local2cart(fVcv, fLat, fLon)
    /\ fVcv' = IF fRes'.status = "ok" THEN fRes'.value ELSE fVcv
    /\ fHist' = Append(fHist, "local2cart")
    /\ UNCHANGED <<fLat, fLon, fOrig, kVars, eVars, cVars>>

NextF == Vcv_cart2local \/ Vcv_local2cart

SpecF == InitF /\ [][NextF]_vars

(***************************************************************************)
(* The frame converter: the claims.                                        *)
(***************************************************************************)
BadShape(v) == v.rows # 3 \/ v.cols \notin {1, 3}

\* C3: vcv_cart2local and vcv_local2cart, given a VCV whose row count is
\* not 3 or whose column count is not 1 or 3, fail with the shape error
\* (the exit carrying 'Matrix must be either 3x1 or 3x3'), before the
\* rotation is applied and with no result returned.
C3_InvalidShape ==
    (Len(fHist) = 1 /\ BadShape(fOrig)) =>
        /\ fRes.status \in {"SystemExit", "InvalidShape"}
        /\ "value" \notin DOMAIN fRes
        /\ fVcv = fOrig

Diag3(vx, vy, vz) == Sym(vx, vy, vz, 0, 0, 0)

C5_RoundTrip ==
    /\ fLat # Idle =>
           LET R == rotation_matrix(fLat, fLon)
               RtR == MatMul(transpose(R), R)
           IN  \A i \in 1..3 : \A j \in 1..3 :
                   RtR[i][j] = IF i = j THEN RotScale ELSE 0
    /\ (fHist = <<"cart2local", "local2cart">> /\ fOrig.rows = 3
        /\ fOrig.cols = 3) =>
           /\ fRes.status = "ok"
           /\ fVcv.rows = 3 /\ fVcv.cols = 3 /\ fVcv.scale > 0
           /\ \A i \in 1..3 : \A j \in 1..3 :
                  fVcv.m[i][j] = fVcv.scale * fOrig.m[i][j]

\* A VCV with covariances went to the local frame, where it was a different
\* matrix, and back, at an oblique latitude and longitude.
C5_Witness ==
    /\ fHist = <<"cart2local", "local2cart">>
    /\ fOrig = Sym(1, 2, 2, 1, -1, 0)
    /\ fLat = Angle(-4, 3) /\ fLon = Angle(-3, -4)
    /\ fRes.status = "ok"

(***************************************************************************)
(* Floating point.  error_ellipse is decided by rounding, so its numbers   *)
(* are binary floating-point values [m, e], standing for m * 2^e, with a   *)
(* significand of MantBits bits (m = 0, or 2^(MantBits-1) <= |m| <         *)
(* 2^MantBits) and every operation rounded to nearest, ties to even, as    *)
(* IEEE 754 does.  CPython's float and numpy's float64 have 53 bits; the   *)
(* model keeps the rule and narrows the significand.  Exponents are        *)
(* unbounded: nothing here overflows or underflows.                        *)
(***************************************************************************)
MantBits == 4

Abs(n) == IF n < 0 THEN 0 - n ELSE n
Sgn(n) == IF n < 0 THEN -1 ELSE IF n > 0 THEN 1 ELSE 0
Min(a, b) == IF a <= b THEN a ELSE b

\* The number of bits of a > 0.
RECURSIVE BitLen(_)
BitLen(a) == IF a < 2 THEN 1 ELSE 1 + BitLen(a \div 2)

FZero == [m |-> 0, e |-> 0]
\* Not a number: the only value with a nan field.
FNaN == [nan |-> TRUE]
IsNaN(x) == "nan" \in DOMAIN x

\* The float nearest to n * 2^e, ties to the even significand.
FRound(n, e) ==
    IF n = 0 THEN FZero
    ELSE LET a == Abs(n)
             bits == BitLen(a)
         IN  IF bits <= MantBits
             THEN [m |-> Sgn(n) * a * 2^(MantBits - bits),
                   e |-> e - (MantBits - bits)]
             ELSE LET sh == bits - MantBits
                      q == a \div 2^sh
                      rem == a % 2^sh
                      half == 2^(sh - 1)
                      q1 == IF rem > half \/ (rem = half /\ q % 2 = 1)
                            THEN q + 1 ELSE q
                  IN  IF q1 = 2^MantBits
                      THEN [m |-> Sgn(n) * 2^(MantBits - 1), e |-> e + sh + 1]
                      ELSE [m |-> Sgn(n) * q1, e |-> e + sh]

\* The integer n as a float (n is small enough to be exact).
FInt(n) == FRound(n, 0)
\* 2^j as a float.
FPow2(j) == [m |-> 2^(MantBits - 1), e |-> j - (MantBits - 1)]

FNeg(x) == [m |-> 0 - x.m, e |-> x.e]

FAdd(x, y) ==
    IF x.m = 0 THEN y
    ELSE IF y.m = 0 THEN x
         ELSE LET em == Min(x.e, y.e)
              IN  FRound(x.m * 2^(x.e - em) + y.m * 2^(y.e - em), em)

FSub(x, y) == FAdd(x, FNeg(y))
FMul(x, y) == FRound(x.m * y.m, x.e + y.e)

\* The sign of x - y, exactly.
FCmp(x, y) ==
    LET em == Min(x.e, y.e)
    IN  IF x.m = 0 THEN Sgn(0 - y.m)
        ELSE IF y.m = 0 THEN Sgn(x.m)
             ELSE Sgn(x.m * 2^(x.e - em) - y.m * 2^(y.e - em))

FAbs(x) == [m |-> Abs(x.m), e |-> x.e]

\* The integer square root of n, lo <= root < hi, by bisection.
RECURSIVE ISqrtIn(_, _, _)
ISqrtIn(n, lo, hi) ==
    IF hi - lo <= 1 THEN lo
    ELSE LET mid == (lo + hi) \div 2
         IN  IF mid * mid <= n THEN ISqrtIn(n, mid, hi) ELSE ISqrtIn(n, lo, mid)

ISqrt(n) == ISqrtIn(n, 0, 2^(MantBits + 3))

\* math.sqrt of x >= 0, correctly rounded: the integer root of the
\* significand widened to more than MantBits + 1 bits, with a sticky bit.
FSqrt(x) ==
    IF x.m = 0 THEN FZero
    ELSE LET odd == x.e % 2
             k == (MantBits + 2) \div 2 + 1
             n == x.m * 2^(2 * k + odd)
             e2 == x.e - 2 * k - odd
             r == ISqrt(n)
             sticky == IF r * r = n THEN 0 ELSE 1
         IN  FRound(2 * r + sticky, (e2 \div 2) - 1)

\* math.sqrt: a negative argument raises ValueError (math domain error).
sqrt(x) == IF x.m < 0 THEN [status |-> "ValueError"]
           ELSE [status |-> "ok", value |-> FSqrt(x)]

\* atan2(y, x) in degrees: exact on the axes and the diagonals, otherwise
\* the open interval (lo, hi) of the octant it lies in.
atan2_deg(y, x) ==
    LET sy == Sgn(y.m)
        sx == Sgn(x.m)
        c == FCmp(FAbs(y), FAbs(x))
        Exact(d) == [lo |-> d, hi |-> d]
        Open(l, h) == [lo |-> l, hi |-> h]
    IN  IF sy = 0 THEN (IF sx < 0 THEN Exact(180) ELSE Exact(0))
        ELSE IF sx = 0 THEN Exact(sy * 90)
        ELSE IF c = 0 THEN Exact(sy * (IF sx > 0 THEN 45 ELSE 135))
        ELSE IF sy > 0
             THEN IF sx > 0 THEN (IF c < 0 THEN Open(0, 45) ELSE Open(45, 90))
                  ELSE (IF c > 0 THEN Open(90, 135) ELSE Open(135, 180))
             ELSE IF sx > 0 THEN (IF c < 0 THEN Open(-45, 0) ELSE Open(-90, -45))
                  ELSE (IF c > 0 THEN Open(-135, -90) ELSE Open(-180, -135))

\* 90 - degrees(0.5 * t) for t = atan2(..), in half degrees: between
\* 180 - t.hi and 180 - t.lo.
Orientation(t) == [lo |-> 180 - t.hi, hi |-> 180 - t.lo]

\* z = sqrt((vcv[0, 0] - vcv[1, 1])**2 + 4 * vcv[0, 1]**2)
EllipseZ(vcv) ==
    LET d == FSub(vcv[1][1], vcv[2][2])
    IN  FSqrt(FAdd(FMul(d, d), FMul(FInt(4), FMul(vcv[1][2], vcv[1][2]))))

\* 0.5 * (vcv[0, 0] + vcv[1, 1] + z) and 0.5 * (vcv[0, 0] + vcv[1, 1] - z)
RadicandA(vcv) ==
    FMul(FPow2(-1), FAdd(FAdd(vcv[1][1], vcv[2][2]), EllipseZ(vcv)))
RadicandB(vcv) ==
    FMul(FPow2(-1), FSub(FAdd(vcv[1][1], vcv[2][2]), EllipseZ(vcv)))

\* error_ellipse with a square root that returns NaN below zero, as
\* numpy.sqrt does.
error_ellipse_NaN(vcv) ==
    LET a == sqrt(RadicandA(vcv))
        b == sqrt(RadicandB(vcv))
    IN  [status |-> "ok",
         a |-> IF a.status = "ok" THEN a.value ELSE FNaN,
         b |-> IF b.status = "ok" THEN b.value ELSE FNaN,
         orientation |->
             Orientation(atan2_deg(FMul(FInt(2), vcv[1][2]),
                                   FSub(vcv[1][1], vcv[2][2])))]

\* error_ellipse with the two axes exchanged.
error_ellipse_Swapped(vcv) ==
    LET a == sqrt(RadicandA(vcv))
        b == sqrt(RadicandB(vcv))
    IN  IF a.status # "ok" THEN a
        ELSE IF b.status # "ok" THEN b
        ELSE [status |-> "ok", a |-> b.value, b |-> a.value,
              orientation |->
                  Orientation(atan2_deg(FMul(FInt(2), vcv[1][2]),
                                        FSub(vcv[1][1], vcv[2][2])))]

error_ellipse(vcv) ==
    LET a == sqrt(RadicandA(vcv))
        b == sqrt(RadicandB(vcv))
    IN  IF a.status # "ok" THEN a
        ELSE IF b.status # "ok" THEN b
        ELSE [status |-> "ok", a |-> a.value, b |-> b.value,
              orientation |->
                  Orientation(atan2_deg(FMul(FInt(2), vcv[1][2]),
                                        FSub(vcv[1][1], vcv[2][2])))]

\* The entries the caller draws from: every float of the binades [1, 2)
\* and [2, 4), and 4, zero and two negative numbers.
PosFloats == {[m |-> m, e |-> j - (MantBits - 1)] :
                 m \in (2^(MantBits - 1))..(2^MantBits - 1), j \in {0, 1}}
Variances == PosFloats \cup {FZero, FInt(4), FNeg(FInt(1))}
Covariances == PosFloats \cup {FZero, FNeg(FInt(1)), FNeg(FInt(2))}
Verticals == {FZero, FInt(3)}

\* A symmetric 3x3 VCV: the horizontal block xx, xy, yy, and w in every
\* place of index 2.
Vcv3(xx, yy, xy, w) == << <<xx, xy, w>>, <<xy, yy, w>>, <<w, w, w>> >>

InitE ==
    /\ eVcv \in {Vcv3(xx, yy, xy, w) : xx \in Variances, yy \in Variances,
                                       xy \in Covariances, w \in Verticals}
    /\ eRes = Pending
    /\ KIdle /\ FIdle /\ CIdle

\* The call error_ellipse(eVcv).
Error_ellipse ==
    /\ eRes = Pending
    /\ eRes' = error_ellipse(eVcv)
    /\ UNCHANGED <<eVcv, kVars, fVars, cVars>>

NextE == Error_ellipse

SpecE == InitE /\ [][NextE]_vars

(***************************************************************************)
(* error_ellipse: the claims.                                              *)
(***************************************************************************)
EDone == eRes # Pending /\ eRes # Idle

\* The horizontal block is positive semi-definite, in exact arithmetic:
\* Vxx >= 0, Vyy >= 0 and Vxx * Vyy >= Vxy^2.
PSD(vcv) ==
    LET xx == vcv[1][1]
        yy == vcv[2][2]
        xy == vcv[1][2]
        em == Min(xx.e + yy.e, 2 * xy.e)
    IN  /\ xx.m >= 0
        /\ yy.m >= 0
        /\ xx.m * yy.m * 2^(xx.e + yy.e - em) >= xy.m * xy.m * 2^(2 * xy.e - em)

IsDiag41(vcv) == vcv[1][1] = FInt(4) /\ vcv[2][2] = FInt(1) /\ vcv[1][2] = FZero

\* C6 as stated: for the horizontal block diag(4, 1) error_ellipse returns
\* a = 2, b = 1 and orientation = 0.
C6_Original ==
    (EDone /\ IsDiag41(eVcv)) =>
        /\ eRes.status = "ok"
        /\ eRes.a = FInt(2) /\ eRes.b = FInt(1)
        /\ eRes.orientation = [lo |-> 0, hi |-> 0]

\* C6 as amended: for the horizontal block diag(4, 1) error_ellipse returns
\* a = 2, b = 1 and orientation = 90 degrees (180 half degrees):
\* 90 - degrees(0.5 * atan2(0, 3)) = 90 - 0.
C6_Diag41 ==
    (EDone /\ IsDiag41(eVcv)) =>
        /\ eRes.status = "ok"
        /\ eRes.a = FInt(2) /\ eRes.b = FInt(1)
        /\ eRes.orientation = [lo |-> 180, hi |-> 180]

\* error_ellipse returned for diag(4, 1, 3).
C6_Witness ==
    /\ EDone /\ IsDiag41(eVcv) /\ eVcv[3][3] = FInt(3) /\ eRes.status = "ok"

\* C7: when the horizontal block is not positive semi-definite and the
\* radicand 0.5 * (Vxx + Vyy - z) comes out negative, error_ellipse raises
\* the domain error ValueError and returns no triple; a returned b is never
\* NaN.
C7_DomainError ==
    /\ (EDone /\ ~PSD(eVcv) /\ RadicandB(eVcv).m < 0) =>
           /\ eRes.status = "ValueError"
           /\ DOMAIN eRes = {"status"}
    /\ (EDone /\ eRes.status = "ok") => (~IsNaN(eRes.a) /\ ~IsNaN(eRes.b))

\* error_ellipse raised for Vxx = 1, Vyy = 1, Vxy = 2, whose determinant is
\* -3.
C7_Witness ==
    /\ EDone /\ eVcv[1][1] = FInt(1) /\ eVcv[2][2] = FInt(1)
    /\ eVcv[1][2] = FInt(2) /\ ~PSD(eVcv) /\ eRes.status = "ValueError"

\* C9: for every VCV whose horizontal block is positive semi-definite,
\* error_ellipse succeeds with a >= b >= 0, and the entries of index 2 do
\* not change the result.
C9_PsdSucceeds ==
    (EDone /\ PSD(eVcv)) =>
        /\ eRes.status = "ok"
        /\ FCmp(eRes.a, eRes.b) >= 0
        /\ eRes.b.m >= 0
        /\ eRes = error_ellipse(Vcv3(eVcv[1][1], eVcv[2][2], eVcv[1][2], FZero))

(***************************************************************************)
(* circ_hz_pu.  The arguments are numbers [type, val] of integer value,    *)
(* of the built-in types int and float or of numpy's float64; the radius   *)
(* is the exact fraction num / den in units of 1e-6, or NaN.               *)
(***************************************************************************)
q0 == 1960790
q1 == 4071
q2 == 114276
q3 == 371625

Num(t, v) == [type |-> t, val |-> v]

\* b / a.  With a built-in divisor and dividend a zero divisor raises
\* ZeroDivisionError; when either is a numpy.float64 the division is
\* numpy's, which warns and yields nan (0 / 0) or an infinity.
TrueDiv(b, a) ==
    IF a.val # 0 THEN [status |-> "ok", kind |-> "finite"]
    ELSE IF a.type = "float64" \/ b.type = "float64"
         THEN [status |-> "ok", kind |-> IF b.val = 0 THEN "nan" ELSE "inf"]
         ELSE [status |-> "ZeroDivisionError"]

\* c = b / a; k = q0 + q1 * c + q2 * c**2 + q3 * c**3; r = a * k.  With c
\* infinite or nan and a = 0 the product a * k is nan.
circ_hz_pu(a, b) ==
    LET c == TrueDiv(b, a)
    IN  IF c.status # "ok" THEN c
        ELSE IF c.kind # "finite" THEN [status |-> "ok", r |-> FNaN]
        ELSE [status |-> "ok",
              r |-> [num |-> q0 * a.val * a.val * a.val + q1 * b.val * a.val * a.val
                             + q2 * b.val * b.val * a.val + q3 * b.val * b.val * b.val,
                     den |-> a.val * a.val]]

\* The largest axis a caller passes.
MaxAxis == 5

NumTypes == {"float", "int", "float64"}
Axes == {Num(t, v) : t \in NumTypes, v \in 0..MaxAxis}

InitC ==
    /\ cArg \in {<<a, b>> : a \in Axes, b \in Axes}
    /\ cRes = Pending
    /\ KIdle /\ FIdle /\ EIdle

\* The call circ_hz_pu(a, b).
Circ_hz_pu ==
    /\ cRes = Pending
    /\ cRes' = circ_hz_pu(cArg[1], cArg[2])
    /\ UNCHANGED <<cArg, kVars, fVars, eVars>>

NextC == Circ_hz_pu

SpecC == InitC /\ [][NextC]_vars

CDone == cRes # Pending /\ cRes # Idle

\* C8: circ_hz_pu called with a == 0, for any b, fails with an error and
\* returns no radius; it never returns NaN or an infinity.
C8_ZeroAxisFails ==
    (CDone /\ cArg[1].val = 0) =>
        /\ cRes.status # "ok"
        /\ "r" \notin DOMAIN cRes

====
